---- MODULE Spec2Model ----
(***************************************************************************)
(* A model of src/src/skcp.rs: the UDP egress mediator (KcpOutputInner,    *)
(* its drainer future KcpOutputQueue, the handles KcpOutputHandle and      *)
(* KcpOutput) and the session cell (KcpCell behind SharedKcp).             *)
(*                                                                         *)
(* The KCP protocol object (crate kcp) and the UDP socket (tokio_core) are *)
(* not part of the file.  They are the environment: every call into them   *)
(* returns one of the results their interface allows, chosen by \E.        *)
(***************************************************************************)
EXTENDS Integers, Sequences, FiniteSets, TLC

\* ------------------------------------------------------------------ bounds
\* Datagrams submitted to send_or_push in one behaviour (they are numbered).
MaxSubmit == 3
\* Largest datagram, in bytes.
MaxLen == 2
\* Datagrams one protocol flush may hand to its output sink.
MaxEmit == 1
\* Datagrams pkt_queue may hold when no history is kept.
MaxQueue == 1
\* KcpOutputHandle values alive besides the one inside the session's KcpOutput.
MaxHandles == 2
\* SharedKcp clones of the session.
MaxRefs == 2
\* Reading of the monotonic clock (Instant::now()).
MaxClock == 2
\* The protocol's configured send window (kcp.snd_wnd()).
SndWnd == 2
\* Segments one kcp.send() may add to the protocol's send buffers.
MaxSeg == 1
\* Complete messages the protocol's receive queue may hold.
MaxRcv == 1
\* Tasks that call into the session (each holds a SharedKcp clone).
NumTasks == 2
\* Sessions constructed on the socket besides the first one.
MaxSessions == 2

Peers == {"A", "B"}
\* The peer the session's KcpOutput is bound to (KcpOutput.peer).
SessionPeer == "A"
Tasks == 1 .. NumTasks
Lens == 1 .. MaxLen
\* Option<Task>::None
None == 0

VARIABLES
    inner,      \* KcpOutputInner: task, pkt_queue, is_finished
    drainer,    \* the spawned KcpOutputQueue future
    handles,    \* live KcpOutputHandle values outside the session
    dropped,    \* KcpOutputInner has been dropped (its Rc count reached 0)
    wire,       \* history: datagrams send_to accepted, in order
    subs,       \* history: calls of send_or_push, in order
    logging,    \* whether the histories wire and subs are kept
    cell,       \* KcpCell
    refs,       \* live SharedKcp clones (Rc strong count of the cell)
    clock,      \* Instant::now()
    waiting,    \* history: tasks whose send was refused and not yet notified
    ev,         \* the last call and what it returned
    outputs,    \* the mediators SharedKcp::new made on the same socket
    sessions,   \* the sessions on the socket: each one's KcpOutput
    borrowed,   \* the RefCells' borrow flags: -1 mutably, n >= 0 n times shared
    pc,         \* the borrows and releases the running call has still to do
    panicked    \* a borrow failed: "already borrowed"

\* What the actions of one session and its mediator leave alone.
aux == <<outputs, sessions, borrowed, pc, panicked>>

vars == <<inner, drainer, handles, dropped, wire, subs, logging, cell, refs, clock, waiting, ev, aux>>

\* ------------------------------------------------------------ environment
\* What UdpSocket::send_to may return for a buffer of len bytes: Ok(n), with
\* n = len or a short write n < len, the would-block error, or another error.
SendToResults(len) ==
    {[kind |-> "ok", n |-> n] : n \in 1 .. len}
        \cup {[kind |-> "wouldblock", n |-> 0], [kind |-> "err", n |-> 0]}

NoEv == [op |-> "none", res |-> "none", n |-> 0, len |-> 0, direct |-> "none",
         arg |-> "none", task |-> None, woke |-> None]

\* ------------------------------------------------------------------ egress
\* The egress operators work on a record e of the mediator and what its calls
\* touch: e.inner (KcpOutputInner), e.drainer (the drainer task), e.dropped,
\* and the histories e.wire and e.subs, kept when e.logging.

\* Rc<RefCell<KcpOutputInner>>: the strong count is one per KcpOutputHandle
\* (the session's KcpOutput holds one) plus one held by the drainer future
\* until the executor drops it.
DrainerAlive(d) == d \in {"runnable", "parked", "blocked"}

\* KcpOutputInner::notify
notify(e) ==
    IF e.inner.task
    THEN [e EXCEPT !.inner.task = FALSE,
                   !.drainer = IF DrainerAlive(@) THEN "runnable" ELSE @]
    ELSE e

\* KcpOutputInner::push_packet
push_packet(e, pkt, peer) ==
    notify([e EXCEPT !.inner.pkt_queue = Append(@, <<peer, pkt>>)])

\* KcpOutputInner::close
close(e) ==
    notify([e EXCEPT !.inner.is_finished = TRUE])

\* KcpOutputInner::is_empty
is_empty(e) == e.inner.pkt_queue = <<>>

\* send_to accepted the datagram d = <<peer, pkt>>.
sent(e, d) == IF e.logging THEN [e EXCEPT !.wire = Append(@, d)] ELSE e

\* KcpOutputInner::send_or_push.  r is what udp.send_to returns if it is
\* called.  The result: the mediator after the call, ret ("ok" with n, or
\* "err") and direct, the outcome of the direct send_to ("none": not tried).
\*
\* Two faulty variants come first.  The first tries the direct send_to even
\* when pkt_queue holds datagrams.
send_or_push_always_direct(e, pkt, len, peer, r) ==
    CASE r.kind = "ok" ->
            [e |-> sent(e, <<peer, pkt>>),
             ret |-> "ok", n |-> r.n, direct |-> "ok"]
      [] r.kind = "err" ->
            [e |-> e, ret |-> "err", n |-> 0, direct |-> "err"]
      [] OTHER ->
            [e |-> push_packet(e, pkt, peer), ret |-> "ok", n |-> len,
             direct |-> "wouldblock"]

\* The second treats every error of the direct send_to as would-block.
send_or_push_queues_on_error(e, pkt, len, peer, r) ==
    IF is_empty(e)
    THEN CASE r.kind = "ok" ->
                 [e |-> sent(e, <<peer, pkt>>),
                  ret |-> "ok", n |-> r.n, direct |-> "ok"]
           [] OTHER ->
                 [e |-> push_packet(e, pkt, peer), ret |-> "ok", n |-> len,
                  direct |-> r.kind]
    ELSE [e |-> push_packet(e, pkt, peer), ret |-> "ok", n |-> len,
          direct |-> "none"]

\* The third goes on to queue the datagram after a direct send_to that
\* succeeded.
send_or_push_falls_through(e, pkt, len, peer, r) ==
    IF is_empty(e)
    THEN CASE r.kind = "ok" ->
                 [e |-> push_packet(sent(e, <<peer, pkt>>), pkt, peer),
                  ret |-> "ok", n |-> len, direct |-> "ok"]
           [] r.kind = "err" ->
                 [e |-> e, ret |-> "err", n |-> 0, direct |-> "err"]
           [] OTHER ->
                 [e |-> push_packet(e, pkt, peer), ret |-> "ok", n |-> len,
                  direct |-> "wouldblock"]
    ELSE [e |-> push_packet(e, pkt, peer), ret |-> "ok", n |-> len,
          direct |-> "none"]

send_or_push(e, pkt, len, peer, r) ==
    IF is_empty(e)
    THEN CASE r.kind = "ok" ->
                 [e |-> sent(e, <<peer, pkt>>),
                  ret |-> "ok", n |-> r.n, direct |-> "ok"]
           [] r.kind = "err" ->
                 [e |-> e, ret |-> "err", n |-> 0, direct |-> "err"]
           [] OTHER ->
                 [e |-> push_packet(e, pkt, peer), ret |-> "ok", n |-> len,
                  direct |-> "wouldblock"]
    ELSE [e |-> push_packet(e, pkt, peer), ret |-> "ok", n |-> len,
          direct |-> "none"]

\* KcpOutputQueue::poll.  rs holds what the successive send_to calls return.
\*
\* A faulty variant first: it drops a datagram whose send_to failed and goes
\* on with the next.
RECURSIVE poll_skips_failed(_, _)
poll_skips_failed(e, rs) ==
    IF e.inner.pkt_queue # <<>>
    THEN CASE Head(rs).kind = "ok" ->
                 poll_skips_failed([sent(e, Head(e.inner.pkt_queue))
                                       EXCEPT !.inner.pkt_queue = Tail(@)], Tail(rs))
           [] Head(rs).kind = "wouldblock" ->
                 [e EXCEPT !.drainer = "blocked"]
           [] OTHER ->
                 poll_skips_failed([e EXCEPT !.inner.pkt_queue = Tail(@)], Tail(rs))
    ELSE IF e.inner.is_finished
         THEN [e EXCEPT !.drainer = "ready"]
         ELSE [e EXCEPT !.inner.task = TRUE, !.drainer = "parked"]

\* Another faulty variant: it yields on an empty queue without storing its
\* task.
RECURSIVE poll_forgets_task(_, _)
poll_forgets_task(e, rs) ==
    IF e.inner.pkt_queue # <<>>
    THEN CASE Head(rs).kind = "ok" ->
                 poll_forgets_task([sent(e, Head(e.inner.pkt_queue))
                                       EXCEPT !.inner.pkt_queue = Tail(@)], Tail(rs))
           [] Head(rs).kind = "wouldblock" ->
                 [e EXCEPT !.drainer = "blocked"]
           [] OTHER ->
                 [e EXCEPT !.drainer = "failed"]
    ELSE IF e.inner.is_finished
         THEN [e EXCEPT !.drainer = "ready"]
         ELSE [e EXCEPT !.drainer = "parked"]

RECURSIVE poll(_, _)
poll(e, rs) ==
    IF e.inner.pkt_queue # <<>>
    THEN CASE Head(rs).kind = "ok" ->
                 poll([sent(e, Head(e.inner.pkt_queue)) EXCEPT !.inner.pkt_queue = Tail(@)],
                      Tail(rs))
           [] Head(rs).kind = "wouldblock" ->
                 \* try_nb!: Ok(Async::NotReady), the socket will wake the task
                 [e EXCEPT !.drainer = "blocked"]
           [] OTHER ->
                 \* try_nb!: return Err(e)
                 [e EXCEPT !.drainer = "failed"]
    ELSE IF e.inner.is_finished
         THEN [e EXCEPT !.drainer = "ready"]
         ELSE [e EXCEPT !.inner.task = TRUE, !.drainer = "parked"]

\* What the last send_to of a poll returned: the first result of rs that is
\* not Ok ends the poll.
LastSendTo(rs) ==
    IF rs = <<>>
    THEN "none"
    ELSE IF \E i \in 1 .. Len(rs) : rs[i].kind # "ok"
         THEN rs[CHOOSE i \in 1 .. Len(rs) :
                    /\ rs[i].kind # "ok"
                    /\ \A j \in 1 .. i - 1 : rs[j].kind = "ok"].kind
         ELSE "ok"

\* Drop for KcpOutputInner
drop_inner(e) == [close(e) EXCEPT !.dropped = TRUE]

\* One holder of the Rc<RefCell<KcpOutputInner>> went away; holders are left.
\* The value is dropped when the last one goes.
rc_release(e, holders) ==
    IF holders = 0 /\ ~e.dropped THEN drop_inner(e) ELSE e

\* KcpOutput::write -> KcpOutputHandle::send_to -> send_or_push.  With the
\* histories kept, the datagram's payload is its number among the submissions
\* and the call is logged in subs; without, every payload is 0.
write(e, len, peer, r) ==
    LET pkt == IF e.logging THEN Len(e.subs) + 1 ELSE 0
        s == send_or_push(e, pkt, len, peer, r)
    IN  IF e.logging
        THEN [s EXCEPT !.e.subs = Append(@, [peer |-> peer, pkt |-> pkt,
                                             ret |-> s.ret, direct |-> s.direct])]
        ELSE s

Egress == [inner |-> inner, drainer |-> drainer, dropped |-> dropped,
           wire |-> wire, subs |-> subs, logging |-> logging]

\* Datagrams the mediator may still be given: the histories are kept for
\* MaxSubmit submissions, and without them pkt_queue is kept to MaxQueue.
Room ==
    IF logging THEN MaxSubmit - Len(subs) ELSE MaxQueue - Len(inner.pkt_queue)

SetEgress(e) ==
    /\ inner' = e.inner
    /\ drainer' = e.drainer
    /\ dropped' = e.dropped
    /\ wire' = e.wire
    /\ subs' = e.subs

\* Holders of the mediator's Rc besides the drainer.
Producers(h, rf) == h + (IF rf > 0 THEN 1 ELSE 0)

\* --------------------------------------------------------------- protocol
\* The kcp crate's Kcp<KcpOutput>, as far as the session reads it: wait_snd
\* (segments sent and not yet acknowledged), rcv (complete messages ready for
\* recv).  snd_wnd() is SndWnd, mtu() is Mtu.
Mtu == MaxLen

Min(a, b) == IF a < b THEN a ELSE b

\* Datagrams that may arrive: "conv" carries another conversation id, "bad"
\* is one the protocol rejects with another error, "ok" acknowledges acks
\* segments and completes msgs messages.
Datagrams ==
    {[kind |-> "conv", acks |-> 0, msgs |-> 0], [kind |-> "bad", acks |-> 0, msgs |-> 0]}
        \cup {[kind |-> "ok", acks |-> a, msgs |-> m] : a \in 0 .. MaxSeg, m \in 0 .. 1}

\* Kcp::input: Err(ConvInconsistent) and the other errors leave the protocol
\* as it was.
kcp_input(k, dg) ==
    CASE dg.kind = "conv" -> [k |-> k, ret |-> "conv"]
      [] dg.kind = "bad" -> [k |-> k, ret |-> "err"]
      [] OTHER ->
            [k |-> [k EXCEPT !.wait_snd = @ - Min(@, dg.acks),
                             !.rcv = Min(MaxRcv, @ + dg.msgs)],
             ret |-> "ok"]

\* Kcp::send: Ok(n) queues segs segments, an error (an empty or oversized
\* buffer) queues nothing.
KcpSendResults == {[kind |-> "err", segs |-> 0]} \cup {[kind |-> "ok", segs |-> g] : g \in 1 .. MaxSeg}

kcp_send(k, sr) ==
    IF sr.kind = "ok"
    THEN [k |-> [k EXCEPT !.wait_snd = @ + sr.segs], ret |-> "ok"]
    ELSE [k |-> k, ret |-> "err"]

\* Kcp::recv: with no complete message, or a caller's buffer too small for
\* the next one, an error; else the next message leaves the receive queue.
kcp_recv(k, small) ==
    IF k.rcv = 0 \/ small
    THEN [k |-> k, ret |-> "err", n |-> 0]
    ELSE [k |-> [k EXCEPT !.rcv = @ - 1], ret |-> "ok", n |-> 1]

\* Kcp::flush (also run by Kcp::update): the protocol hands datagrams to its
\* output sink one after the other and gives up at the first write error; fl.perr
\* is an error of the protocol's own (flush before the first update).
\* fl.ws is a sequence of [len, r]: a datagram's length and what send_to
\* returns if the mediator calls it.
RECURSIVE kcp_writes(_, _)
kcp_writes(e, ws) ==
    IF ws = <<>>
    THEN [e |-> e, ret |-> "ok"]
    ELSE LET w == write(e, Head(ws).len, SessionPeer, Head(ws).r)
         IN  IF w.ret = "err"
             THEN [e |-> w.e, ret |-> "err"]
             ELSE kcp_writes(w.e, Tail(ws))

kcp_flush(e, fl) ==
    IF fl.perr THEN [e |-> e, ret |-> "err"] ELSE kcp_writes(e, fl.ws)

\* The protocol does not read the count a write returns, so a short write
\* is to it a full one; Write covers the short writes.
WriteInputs ==
    {[len |-> MaxLen, r |-> r] : r \in {x \in SendToResults(MaxLen) : x.n \in {0, MaxLen}}}

SeqsUpTo(S, n) == UNION {[1 .. m -> S] : m \in 0 .. n}

\* What a flush may do when the mediator can take room more datagrams.
FlushInputs(room) ==
    {[perr |-> TRUE, ws |-> <<>>]}
        \cup {[perr |-> FALSE, ws |-> ws] :
                ws \in SeqsUpTo(WriteInputs, Min(MaxEmit, room))}

\* ---------------------------------------------------------------- session
\* The session operators work on c, the KcpCell, and return it with ret, what
\* the call returns.  now is Instant::now().

\* KcpCell::input.  The faulty variant first: it swallows every error of the
\* protocol, not only the conversation mismatch.
KcpCell_input_swallows_all_errors(c, dg, now) ==
    LET i == kcp_input(c.kcp, dg)
    IN  [c |-> [c EXCEPT !.kcp = i.k, !.last_update = now], ret |-> "ok"]

KcpCell_input(c, dg, now) ==
    LET i == kcp_input(c.kcp, dg)
    IN  IF i.ret \in {"ok", "conv"}
        THEN [c |-> [c EXCEPT !.kcp = i.k, !.last_update = now], ret |-> "ok"]
        ELSE [c |-> [c EXCEPT !.kcp = i.k], ret |-> "err"]

\* KcpCell::input_self: the same on recv_buf[..n]
KcpCell_input_self(c, dg, now) ==
    LET i == kcp_input(c.kcp, dg)
    IN  IF i.ret \in {"ok", "conv"}
        THEN [c |-> [c EXCEPT !.kcp = i.k, !.last_update = now], ret |-> "ok"]
        ELSE [c |-> [c EXCEPT !.kcp = i.k], ret |-> "err"]

\* What udp.recv_from may return to fetch: a datagram, would-block, an error.
RecvFromResults ==
    {[kind |-> "wouldblock", dg |-> CHOOSE d \in Datagrams : d.kind = "bad"],
     [kind |-> "err", dg |-> CHOOSE d \in Datagrams : d.kind = "bad"]}
        \cup {[kind |-> "ok", dg |-> d] : d \in Datagrams}

\* KcpCell::fetch.  The faulty variant first: it takes a would-block of the
\* socket for activity and refreshes last_update.
KcpCell_fetch_refreshes_on_wouldblock(c, rf, now) ==
    LET c1 == IF c.recv_buf < Mtu THEN [c EXCEPT !.recv_buf = Mtu] ELSE c
    IN  CASE rf.kind = "wouldblock" -> [c |-> [c1 EXCEPT !.last_update = now], ret |-> "ok"]
          [] rf.kind = "err" -> [c |-> c1, ret |-> "err"]
          [] OTHER -> KcpCell_input_self(c1, rf.dg, now)

KcpCell_fetch(c, rf, now) ==
    LET c1 == IF c.recv_buf < Mtu THEN [c EXCEPT !.recv_buf = Mtu] ELSE c
    IN  CASE rf.kind = "wouldblock" -> [c |-> c1, ret |-> "ok"]
          [] rf.kind = "err" -> [c |-> c1, ret |-> "err"]
          [] OTHER -> KcpCell_input_self(c1, rf.dg, now)

\* SharedKcp::send, called by task t.  Two faulty variants come first: one
\* refuses only when wait_snd > snd_wnd, one keeps a waker already stored.
SharedKcp_send_off_by_one(c, t, sr, now) ==
    IF c.kcp.wait_snd > SndWnd
    THEN [c |-> [c EXCEPT !.send_task = t], ret |-> "wouldblock"]
    ELSE LET k == kcp_send(c.kcp, sr)
         IN  IF k.ret = "err"
             THEN [c |-> [c EXCEPT !.kcp = k.k], ret |-> "err"]
             ELSE [c |-> [c EXCEPT !.kcp = k.k, !.last_update = now], ret |-> "ok"]

SharedKcp_send_keeps_waker(c, t, sr, now) ==
    IF c.kcp.wait_snd >= SndWnd
    THEN [c |-> [c EXCEPT !.send_task = IF @ = None THEN t ELSE @],
          ret |-> "wouldblock"]
    ELSE LET k == kcp_send(c.kcp, sr)
         IN  IF k.ret = "err"
             THEN [c |-> [c EXCEPT !.kcp = k.k], ret |-> "err"]
             ELSE [c |-> [c EXCEPT !.kcp = k.k, !.last_update = now], ret |-> "ok"]

SharedKcp_send(c, t, sr, now) ==
    IF c.kcp.wait_snd >= SndWnd
    THEN [c |-> [c EXCEPT !.send_task = t], ret |-> "wouldblock"]
    ELSE LET k == kcp_send(c.kcp, sr)
         IN  IF k.ret = "err"
             THEN [c |-> [c EXCEPT !.kcp = k.k], ret |-> "err"]
             ELSE [c |-> [c EXCEPT !.kcp = k.k, !.last_update = now], ret |-> "ok"]

\* SharedKcp::try_notify_writable: woke is the task notified (None: nobody).
\* The faulty variant first: it notifies without looking at the window.
SharedKcp_try_notify_writable_any_window(c) ==
    IF c.send_task # None
    THEN [c |-> [c EXCEPT !.send_task = None], woke |-> c.send_task]
    ELSE [c |-> c, woke |-> None]

SharedKcp_try_notify_writable(c) ==
    IF c.kcp.wait_snd < SndWnd /\ c.send_task # None
    THEN [c |-> [c EXCEPT !.send_task = None], woke |-> c.send_task]
    ELSE [c |-> c, woke |-> None]

\* SharedKcp::recv.  The faulty variant first: it does not look at expired.
SharedKcp_recv_ignores_expired(c, small, now) ==
    LET k == kcp_recv(c.kcp, small)
    IN  IF k.ret = "err"
        THEN [c |-> [c EXCEPT !.kcp = k.k], ret |-> "err", n |-> 0]
        ELSE [c |-> [c EXCEPT !.kcp = k.k, !.last_update = now],
              ret |-> "ok", n |-> k.n]

SharedKcp_recv(c, small, now) ==
    IF c.expired
    THEN [c |-> c, ret |-> "ok", n |-> 0]
    ELSE LET k == kcp_recv(c.kcp, small)
         IN  IF k.ret = "err"
             THEN [c |-> [c EXCEPT !.kcp = k.k], ret |-> "err", n |-> 0]
             ELSE [c |-> [c EXCEPT !.kcp = k.k, !.last_update = now],
                   ret |-> "ok", n |-> k.n]

\* SharedKcp::flush.  The faulty variant first: it refreshes last_update
\* before the protocol's flush, so also when that fails.
SharedKcp_flush_refreshes_first(c, e, fl, now) ==
    LET f == kcp_flush(e, fl)
    IN  [c |-> [c EXCEPT !.last_update = now], e |-> f.e, ret |-> f.ret]

SharedKcp_flush(c, e, fl, now) ==
    LET f == kcp_flush(e, fl)
    IN  IF f.ret = "err"
        THEN [c |-> c, e |-> f.e, ret |-> "err"]
        ELSE [c |-> [c EXCEPT !.last_update = now], e |-> f.e, ret |-> "ok"]

\* SharedKcp::set_expired
SharedKcp_set_expired(c, e, fl) ==
    LET f == kcp_flush(e, fl)
    IN  [c |-> [c EXCEPT !.expired = TRUE], e |-> f.e, ret |-> f.ret]

\* SharedKcp::update: Kcp::update flushes when its timer is due
SharedKcp_update(c, e, fl) ==
    LET f == kcp_flush(e, fl)
    IN  [c |-> c, e |-> f.e, ret |-> f.ret]

\* SharedKcp::close.  The faulty variant first: it also ends the read side.
SharedKcp_close_also_expires(c) == [c EXCEPT !.is_closed = TRUE, !.expired = TRUE]

SharedKcp_close(c) == [c EXCEPT !.is_closed = TRUE]

\* Drop for KcpCell: let _ = self.kcp.flush()
KcpCell_drop(e, fl) == kcp_flush(e, fl).e

\* A SharedKcp is dropped: the Rc<RefCell<KcpCell>> had rf strong references.
\* The last one drops the KcpCell (its final flush), then the Kcp and the
\* KcpOutput in it, and so the session's handle on the mediator, which
\* leaves it holders references.  The faulty variant first: it flushes at
\* the drop of every clone.
SharedKcp_drop_flushes_every_clone(e, rf, fl, holders) ==
    [e |-> IF rf = 1 THEN rc_release(KcpCell_drop(e, fl), holders) ELSE KcpCell_drop(e, fl),
     flushed |-> TRUE]

SharedKcp_drop(e, rf, fl, holders) ==
    IF rf = 1
    THEN [e |-> rc_release(KcpCell_drop(e, fl), holders), flushed |-> TRUE]
    ELSE [e |-> e, flushed |-> FALSE]

\* The observers.
elapsed(c, now) == now - c.last_update
has_waitsnd(c) == c.kcp.wait_snd # 0
is_closed(c) == c.is_closed
peeksize(c) == IF c.kcp.rcv > 0 THEN 1 ELSE 0
can_read(c) == peeksize(c) # 0
can_send(c) == c.kcp.wait_snd < SndWnd

\* ------------------------------------------------------------------- state
\* KcpOutputHandle::new has made the mediator and spawned its drainer; one
\* clone of the handle went into the session's KcpOutput
\* (SharedKcp::new_with_output), the other is the owner's.
InitAll ==
    /\ inner = [task |-> FALSE, pkt_queue |-> <<>>, is_finished |-> FALSE]
    /\ drainer = "runnable"
    /\ handles = 1
    /\ dropped = FALSE
    /\ wire = <<>>
    /\ subs = <<>>
    /\ cell = [kcp |-> [wait_snd |-> 0, rcv |-> 0], last_update |-> 0,
               is_closed |-> FALSE, send_task |-> None, recv_buf |-> 0,
               expired |-> FALSE]
    /\ refs = 1
    /\ clock = 0
    /\ waiting = {}
    /\ ev = NoEv
    /\ outputs = <<>>
    /\ sessions = <<[output |-> 0, peer |-> SessionPeer]>>
    /\ borrowed = [cell |-> 0, egress |-> 0]
    /\ pc = <<>>
    /\ panicked = FALSE

\* The session's specification keeps no history of the egress; the egress
\* specification does.
Init == InitAll /\ logging = FALSE

InitEgress == InitAll /\ logging = TRUE

\* ---------------------------------------------------------- egress actions
\* A KcpOutput of any peer, made from one of the owner's handles, writes.
Write(peer, len, r) ==
    /\ handles > 0
    /\ Room > 0
    /\ LET w == write(Egress, len, peer, r)
       IN  /\ SetEgress(w.e)
           /\ ev' = [NoEv EXCEPT !.op = "send_or_push", !.res = w.ret, !.n = w.n,
                                 !.len = len, !.direct = w.direct, !.arg = peer]
    /\ UNCHANGED <<aux, logging, handles, cell, refs, clock, waiting>>

\* The executor polls the drainer; when the future ends it is dropped, and
\* with it its Rc.
DrainerPoll(rs) ==
    /\ drainer = "runnable"
    /\ LET p == poll(Egress, rs)
           q == IF DrainerAlive(p.drainer)
                THEN p
                ELSE rc_release(p, Producers(handles, refs))
       IN  /\ SetEgress(q)
           /\ ev' = [NoEv EXCEPT !.op = "poll", !.res = p.drainer,
                                 !.direct = LastSendTo(rs)]
    /\ UNCHANGED <<aux, logging, handles, cell, refs, clock, waiting>>

\* The socket turns writable and wakes the task that got would-block from it.
UdpWritable ==
    /\ drainer = "blocked"
    /\ drainer' = "runnable"
    /\ ev' = NoEv
    /\ UNCHANGED <<aux, logging, inner, handles, dropped, wire, subs, cell, refs, clock, waiting>>

\* #[derive(Clone)] KcpOutputHandle
CloneHandle ==
    /\ handles > 0
    /\ handles < MaxHandles
    /\ handles' = handles + 1
    /\ ev' = NoEv
    /\ UNCHANGED <<aux, logging, inner, drainer, dropped, wire, subs, cell, refs, clock, waiting>>

\* A KcpOutputHandle (or the KcpOutput holding it) is dropped.
DropHandle ==
    /\ handles > 0
    /\ handles' = handles - 1
    /\ SetEgress(rc_release(Egress, Producers(handles - 1, refs)
                                     + (IF DrainerAlive(drainer) THEN 1 ELSE 0)))
    /\ ev' = NoEv
    /\ UNCHANGED <<aux, logging, cell, refs, clock, waiting>>

\* --------------------------------------------------------- session actions
Input(dg) ==
    /\ refs > 0
    /\ LET i == KcpCell_input(cell, dg, clock)
       IN  /\ cell' = i.c
           /\ ev' = [NoEv EXCEPT !.op = "input", !.res = i.ret, !.arg = dg.kind]
    /\ UNCHANGED <<aux, logging, inner, drainer, handles, dropped, wire, subs, refs, clock, waiting>>

Fetch(rf) ==
    /\ refs > 0
    /\ LET f == KcpCell_fetch(cell, rf, clock)
       IN  /\ cell' = f.c
           /\ ev' = [NoEv EXCEPT !.op = "fetch", !.res = f.ret,
                                 !.arg = IF rf.kind = "ok" THEN rf.dg.kind ELSE rf.kind]
    /\ UNCHANGED <<aux, logging, inner, drainer, handles, dropped, wire, subs, refs, clock, waiting>>

Send(t, sr) ==
    /\ refs > 0
    /\ LET s == SharedKcp_send(cell, t, sr, clock)
       IN  /\ cell' = s.c
           /\ waiting' = IF s.ret = "wouldblock" THEN waiting \cup {t} ELSE waiting \ {t}
           /\ ev' = [NoEv EXCEPT !.op = "send", !.res = s.ret, !.task = t]
    /\ UNCHANGED <<aux, logging, inner, drainer, handles, dropped, wire, subs, refs, clock>>

TryNotifyWritable ==
    /\ refs > 0
    /\ LET s == SharedKcp_try_notify_writable(cell)
       IN  /\ cell' = s.c
           /\ waiting' = waiting \ {s.woke}
           /\ ev' = [NoEv EXCEPT !.op = "try_notify_writable", !.woke = s.woke]
    /\ UNCHANGED <<aux, logging, inner, drainer, handles, dropped, wire, subs, refs, clock>>

Recv(small) ==
    /\ refs > 0
    /\ LET s == SharedKcp_recv(cell, small, clock)
       IN  /\ cell' = s.c
           /\ ev' = [NoEv EXCEPT !.op = "recv", !.res = s.ret, !.n = s.n]
    /\ UNCHANGED <<aux, logging, inner, drainer, handles, dropped, wire, subs, refs, clock, waiting>>

Flush(fl) ==
    /\ refs > 0
    /\ LET s == SharedKcp_flush(cell, Egress, fl, clock)
       IN  /\ cell' = s.c
           /\ SetEgress(s.e)
           /\ ev' = [NoEv EXCEPT !.op = "flush", !.res = s.ret]
    /\ UNCHANGED <<aux, logging, handles, refs, clock, waiting>>

SetExpired(fl) ==
    /\ refs > 0
    /\ LET s == SharedKcp_set_expired(cell, Egress, fl)
       IN  /\ cell' = s.c
           /\ SetEgress(s.e)
           /\ ev' = [NoEv EXCEPT !.op = "set_expired", !.res = s.ret]
    /\ UNCHANGED <<aux, logging, handles, refs, clock, waiting>>

Update(fl) ==
    /\ refs > 0
    /\ LET s == SharedKcp_update(cell, Egress, fl)
       IN  /\ cell' = s.c
           /\ SetEgress(s.e)
           /\ ev' = [NoEv EXCEPT !.op = "update", !.res = s.ret]
    /\ UNCHANGED <<aux, logging, handles, refs, clock, waiting>>

Close ==
    /\ refs > 0
    /\ cell' = SharedKcp_close(cell)
    /\ ev' = [NoEv EXCEPT !.op = "close"]
    /\ UNCHANGED <<aux, logging, inner, drainer, handles, dropped, wire, subs, refs, clock, waiting>>

\* #[derive(Clone)] SharedKcp
CloneSession ==
    /\ refs > 0
    /\ refs < MaxRefs
    /\ refs' = refs + 1
    /\ ev' = NoEv
    /\ UNCHANGED <<aux, logging, inner, drainer, handles, dropped, wire, subs, cell, clock, waiting>>

\* A SharedKcp is dropped.
DropSession(fl) ==
    /\ refs > 0
    /\ refs' = refs - 1
    /\ LET d == SharedKcp_drop(Egress, refs, fl,
                               handles + (IF DrainerAlive(drainer) THEN 1 ELSE 0))
       IN  /\ SetEgress(d.e)
           /\ ev' = [NoEv EXCEPT !.op = "drop",
                                 !.res = IF d.flushed THEN "flushed" ELSE "none",
                                 !.n = Len(d.e.subs) - Len(subs)]
    /\ UNCHANGED <<aux, logging, handles, cell, clock, waiting>>

\* Time passes.
Tick ==
    /\ clock < MaxClock
    /\ clock' = clock + 1
    /\ ev' = NoEv
    /\ UNCHANGED <<aux, logging, inner, drainer, handles, dropped, wire, subs, cell, refs, waiting>>

\* --------------------------------------------------------- specifications
\* The mediator with its producers: the owner's handles and the session's
\* output sink.
NextEgress ==
    \/ \E peer \in Peers, len \in Lens : \E r \in SendToResults(len) : Write(peer, len, r)
    \/ \E rs \in [1 .. Len(inner.pkt_queue) -> SendToResults(1)] : DrainerPoll(rs)
    \/ UdpWritable
    \/ CloneHandle
    \/ DropHandle
    \/ \E fl \in FlushInputs(Room) : Flush(fl)
    \/ CloneSession
    \/ \E fl \in FlushInputs(Room) : DropSession(fl)

SpecEgress == InitEgress /\ [][NextEgress]_vars

\* The mediator on a socket whose send_to never fails with a hard error in
\* the drainer.  The executor polls the drainer when it has been notified
\* (it is spawned notified), the socket wakes a drainer it refused, and
\* send_to does not refuse for ever.
SendToNoError(len) == {r \in SendToResults(len) : r.kind # "err"}

SendToOk(len) == {r \in SendToResults(len) : r.kind = "ok"}

NextDrain ==
    \/ \E peer \in Peers, len \in Lens : \E r \in SendToResults(len) : Write(peer, len, r)
    \/ \E rs \in [1 .. Len(inner.pkt_queue) -> SendToNoError(1)] : DrainerPoll(rs)
    \/ UdpWritable
    \/ DropHandle

PollOk == \E rs \in [1 .. Len(inner.pkt_queue) -> SendToOk(1)] : DrainerPoll(rs)

SpecDrain ==
    /\ InitEgress
    /\ [][NextDrain]_vars
    /\ WF_vars(UdpWritable)
    /\ SF_vars(PollOk)

\* The session's callers: the tasks whose sends are refused and woken, with
\* the datagrams that reopen the window.
NextWaker ==
    \/ \E t \in Tasks, sr \in KcpSendResults : Send(t, sr)
    \/ TryNotifyWritable
    \/ \E dg \in Datagrams : Input(dg)

SpecWaker == Init /\ [][NextWaker]_vars

FirstTask == CHOOSE t \in Tasks : \A u \in Tasks : t <= u

\* The session, called by one task.  Its flushes write to the mediator, whose
\* drainer is not polled here: NextEgress has the drainer.
Next ==
    \/ \E dg \in Datagrams : Input(dg)
    \/ \E rf \in RecvFromResults : Fetch(rf)
    \/ \E sr \in KcpSendResults : Send(FirstTask, sr)
    \/ TryNotifyWritable
    \/ \E small \in BOOLEAN : Recv(small)
    \/ \E fl \in FlushInputs(Room) : Flush(fl)
    \/ \E fl \in FlushInputs(Room) : SetExpired(fl)
    \/ \E fl \in FlushInputs(Room) : Update(fl)
    \/ Close
    \/ Tick

Spec == Init /\ [][Next]_vars

\* ------------------------------------------------- sessions on one socket
\* The first session and its mediator are the ones of Init: mediator 0, made
\* by the owner's KcpOutputHandle::new.  Further sessions are constructed on
\* the same Rc<UdpSocket>; outputs[m], m >= 1, are the mediators their
\* construction made.

\* KcpOutputInner::new and KcpOutputHandle::new: a mediator of its own with
\* an empty pkt_queue, and its drainer spawned.
KcpOutputHandle_new ==
    [inner |-> [task |-> FALSE, pkt_queue |-> <<>>, is_finished |-> FALSE],
     drainer |-> "runnable"]

\* KcpOutput::new_with_handle: the KcpOutput writes to the mediator of h.
KcpOutput_new_with_handle(outs, h, peer) ==
    [outputs |-> outs, out |-> [output |-> h, peer |-> peer]]

\* KcpOutput::new: new_with_handle on the result of KcpOutputHandle::new.
KcpOutput_new(outs, peer) ==
    KcpOutput_new_with_handle(Append(outs, KcpOutputHandle_new), Len(outs) + 1, peer)

\* SharedKcp::new_with_output: the session keeps the KcpOutput it is given.
SharedKcp_new_with_output(o) == o

\* SharedKcp::new
SharedKcp_new(outs, peer) == SharedKcp_new_with_output(KcpOutput_new(outs, peer))

\* Mediator m with the socket's histories.
EgressOf(m) ==
    IF m = 0
    THEN Egress
    ELSE [inner |-> outputs[m].inner, drainer |-> outputs[m].drainer,
          dropped |-> FALSE, wire |-> wire, subs |-> subs, logging |-> logging]

SetEgressOf(m, e) ==
    IF m = 0
    THEN SetEgress(e) /\ outputs' = outputs
    ELSE /\ outputs' = [outputs EXCEPT ![m] = [inner |-> e.inner, drainer |-> e.drainer]]
         /\ wire' = e.wire
         /\ subs' = e.subs
         /\ UNCHANGED <<inner, drainer, dropped>>

\* SharedKcp::new(c, conv, udp, peer, handle) on the socket.
NewSession(peer) ==
    /\ Len(sessions) <= MaxSessions
    /\ LET n == SharedKcp_new(outputs, peer)
       IN  /\ outputs' = n.outputs
           /\ sessions' = Append(sessions, n.out)
    /\ ev' = [NoEv EXCEPT !.op = "new", !.arg = peer]
    /\ UNCHANGED <<borrowed, pc, panicked, logging, inner, drainer, handles, dropped, wire, subs, cell, refs, clock, waiting>>

\* SharedKcp::new_with_output(c, conv, KcpOutput::new_with_handle(h, peer)),
\* h a clone of the owner's KcpOutputHandle.
NewSessionWithOutput(peer) ==
    /\ Len(sessions) <= MaxSessions
    /\ handles > 0
    /\ LET n == SharedKcp_new_with_output(KcpOutput_new_with_handle(outputs, 0, peer))
       IN  /\ outputs' = n.outputs
           /\ sessions' = Append(sessions, n.out)
    /\ ev' = [NoEv EXCEPT !.op = "new_with_output", !.arg = peer]
    /\ UNCHANGED <<borrowed, pc, panicked, logging, inner, drainer, handles, dropped, wire, subs, cell, refs, clock, waiting>>

\* The protocol of session s hands a datagram to its sink: KcpOutput::write.
SessionWrite(s, len, r) ==
    /\ Room > 0
    /\ LET w == write(EgressOf(sessions[s].output), len, sessions[s].peer, r)
       IN  /\ SetEgressOf(sessions[s].output, w.e)
           /\ ev' = [NoEv EXCEPT !.op = "send_or_push", !.res = w.ret, !.n = w.n,
                                 !.len = len, !.direct = w.direct,
                                 !.arg = sessions[s].peer]
    /\ UNCHANGED <<borrowed, pc, panicked, logging, sessions, handles, cell, refs, clock, waiting>>

\* The executor polls the drainer of mediator m.
OutputPoll(m, rs) ==
    /\ EgressOf(m).drainer = "runnable"
    /\ LET p == poll(EgressOf(m), rs)
       IN  /\ SetEgressOf(m, p)
           /\ ev' = [NoEv EXCEPT !.op = "poll", !.res = p.drainer]
    /\ UNCHANGED <<borrowed, pc, panicked, logging, sessions, handles, cell, refs, clock, waiting>>

\* The socket turns writable and wakes the drainer of mediator m.
OutputWritable(m) ==
    /\ EgressOf(m).drainer = "blocked"
    /\ SetEgressOf(m, [EgressOf(m) EXCEPT !.drainer = "runnable"])
    /\ ev' = NoEv
    /\ UNCHANGED <<borrowed, pc, panicked, logging, sessions, handles, cell, refs, clock, waiting>>

NextSocket ==
    \/ \E peer \in Peers : NewSession(peer)
    \/ \E peer \in Peers : NewSessionWithOutput(peer)
    \/ \E s \in 1 .. Len(sessions), r \in SendToResults(1) : SessionWrite(s, 1, r)
    \/ \E m \in 0 .. Len(outputs) :
          \E rs \in [1 .. Len(EgressOf(m).inner.pkt_queue) -> SendToResults(1)] :
              OutputPoll(m, rs)
    \/ \E m \in 0 .. Len(outputs) : OutputWritable(m)

SpecSocket == InitEgress /\ [][NextSocket]_vars

\* ------------------------------------------------------- RefCell borrows
\* The session is an Rc<RefCell<KcpCell>>, the mediator an
\* Rc<RefCell<KcpOutputInner>>.  A call is the sequence of its borrows and
\* releases, in the order the code does them; a step is <<cell, what>>.
borrow_mut(c) == <<c, "borrow_mut">>

borrow(c) == <<c, "borrow">>

release(c) == <<c, "release">>

\* RefCell::borrow_mut, RefCell::borrow and the drop of the RefMut or Ref:
\* whether the step panics, and the flags after it.
RefCellStep(b, st) ==
    CASE st[2] = "borrow_mut" ->
            IF b[st[1]] # 0
            THEN [panic |-> TRUE, b |-> b]
            ELSE [panic |-> FALSE, b |-> [b EXCEPT ![st[1]] = -1]]
      [] st[2] = "borrow" ->
            IF b[st[1]] < 0
            THEN [panic |-> TRUE, b |-> b]
            ELSE [panic |-> FALSE, b |-> [b EXCEPT ![st[1]] = @ + 1]]
      [] OTHER ->
            [panic |-> FALSE, b |-> [b EXCEPT ![st[1]] = IF @ < 0 THEN 0 ELSE @ - 1]]

\* KcpOutputHandle::send_to.  The faulty variant first: it reads the socket
\* through self.udp() while it holds the mutable borrow.
KcpOutputHandle_send_to_calls_udp ==
    <<borrow_mut("egress"), borrow("egress"), release("egress"), release("egress")>>

KcpOutputHandle_send_to == <<borrow_mut("egress"), release("egress")>>

\* KcpOutputHandle::udp
KcpOutputHandle_udp == <<borrow("egress"), release("egress")>>

\* KcpOutput::write
KcpOutput_write == KcpOutputHandle_send_to

\* KcpOutput::udp
KcpOutput_udp == KcpOutputHandle_udp

\* KcpOutputQueue::poll holds the mutable borrow from its first line to its
\* return; send_to, task::current() and the return do not touch a RefCell.
KcpOutputQueue_poll == <<borrow_mut("egress"), release("egress")>>

\* Kcp::flush and Kcp::update write k datagrams to the sink.
RECURSIVE kcp_flush_borrows(_)
kcp_flush_borrows(k) ==
    IF k = 0 THEN <<>> ELSE KcpOutput_write \o kcp_flush_borrows(k - 1)

\* The methods of SharedKcp.
MutMethods == {"input", "fetch", "send", "try_notify_writable", "recv", "close"}

FlushMethods == {"flush", "set_expired", "update"}

RefMethods == {"elapsed", "has_waitsnd", "mtu", "is_closed", "can_read",
               "peeksize", "can_send", "conv"}

SharedKcp_borrows(op, k) ==
    CASE op \in MutMethods -> <<borrow_mut("cell"), release("cell")>>
      [] op \in FlushMethods ->
            <<borrow_mut("cell")>> \o kcp_flush_borrows(k) \o <<release("cell")>>
      [] OTHER -> <<borrow("cell"), release("cell")>>

\* Drop for KcpCell: the RefCell is gone, the flush writes to the sink.
KcpCell_drop_borrows(k) == kcp_flush_borrows(k)

\* A task calls a method of one of the session's clones.  Calls take turns:
\* the next begins when the running one has returned.
Call(op, k) ==
    /\ pc = <<>> /\ ~panicked
    /\ refs > 0
    /\ pc' = SharedKcp_borrows(op, k)
    /\ ev' = [NoEv EXCEPT !.op = op, !.n = k]
    /\ UNCHANGED <<outputs, sessions, borrowed, panicked, logging, inner, drainer,
                   handles, dropped, wire, subs, cell, refs, clock, waiting>>

\* The owner reads the socket of one of its handles, as new_with_output does.
CallUdp ==
    /\ pc = <<>> /\ ~panicked
    /\ handles > 0
    /\ pc' = KcpOutput_udp
    /\ ev' = [NoEv EXCEPT !.op = "udp"]
    /\ UNCHANGED <<outputs, sessions, borrowed, panicked, logging, inner, drainer,
                   handles, dropped, wire, subs, cell, refs, clock, waiting>>

\* A KcpOutput made from one of the owner's handles writes.
CallWrite ==
    /\ pc = <<>> /\ ~panicked
    /\ handles > 0
    /\ pc' = KcpOutput_write
    /\ ev' = [NoEv EXCEPT !.op = "send_or_push"]
    /\ UNCHANGED <<outputs, sessions, borrowed, panicked, logging, inner, drainer,
                   handles, dropped, wire, subs, cell, refs, clock, waiting>>

\* The executor polls the drainer, between the calls of the other tasks.
CallPoll ==
    /\ pc = <<>> /\ ~panicked
    /\ DrainerAlive(drainer)
    /\ pc' = KcpOutputQueue_poll
    /\ ev' = [NoEv EXCEPT !.op = "poll"]
    /\ UNCHANGED <<outputs, sessions, borrowed, panicked, logging, inner, drainer,
                   handles, dropped, wire, subs, cell, refs, clock, waiting>>

\* A clone of the session is dropped; the last one runs Drop for KcpCell.
CallDrop(k) ==
    /\ pc = <<>> /\ ~panicked
    /\ refs > 0
    /\ refs' = refs - 1
    /\ pc' = IF refs = 1 THEN KcpCell_drop_borrows(k) ELSE <<>>
    /\ ev' = [NoEv EXCEPT !.op = "drop", !.n = IF refs = 1 THEN k ELSE 0]
    /\ UNCHANGED <<outputs, sessions, borrowed, panicked, logging, inner, drainer,
                   handles, dropped, wire, subs, cell, clock, waiting>>

\* The running call does its next borrow or release.
BorrowStep ==
    /\ pc # <<>> /\ ~panicked
    /\ LET s == RefCellStep(borrowed, Head(pc))
       IN  /\ panicked' = s.panic
           /\ borrowed' = s.b
           /\ pc' = IF s.panic THEN <<>> ELSE Tail(pc)
    /\ UNCHANGED <<outputs, sessions, ev, logging, inner, drainer,
                   handles, dropped, wire, subs, cell, refs, clock, waiting>>

\* #[derive(Clone)] SharedKcp and KcpOutputHandle, between calls.
NextBorrow ==
    \/ \E op \in MutMethods \cup FlushMethods \cup RefMethods, k \in 0 .. MaxEmit : Call(op, k)
    \/ CallUdp
    \/ CallWrite
    \/ CallPoll
    \/ \E k \in 0 .. MaxEmit : CallDrop(k)
    \/ BorrowStep
    \/ pc = <<>> /\ CloneSession
    \/ pc = <<>> /\ CloneHandle
    \/ pc = <<>> /\ DropHandle

SpecBorrow == Init /\ [][NextBorrow]_vars

\* ------------------------------------------------------------------ claims
\* The datagrams of peer P send_to accepted, and the payloads of the calls of
\* send_or_push for P that returned success, both in order.
WireOf(P) == SelectSeq(wire, LAMBDA d : d[1] = P)

AcceptedOf(P) == SelectSeq(subs, LAMBDA s : s.peer = P /\ s.ret = "ok")

\* C1: for every peer, the datagrams handed successfully to send_to are, in
\* order, the payloads submitted to send_or_push for that peer: at every
\* moment a prefix of them, so that none overtakes an earlier one.  (A call
\* that a hard error of the direct send_to rejected submitted nothing.)
C1_PerPeerFifo ==
    \A P \in Peers :
        /\ Len(WireOf(P)) <= Len(AcceptedOf(P))
        /\ \A i \in 1 .. Len(WireOf(P)) : WireOf(P)[i][2] = AcceptedOf(P)[i].pkt

\* A datagram that waited in pkt_queue and a later one for the same peer
\* have both left the socket.
C1_Witness ==
    \E i, j \in 1 .. Len(subs) :
        /\ i < j
        /\ subs[i].peer = subs[j].peer
        /\ subs[i].direct = "wouldblock"
        /\ \E a, b \in 1 .. Len(wire) :
              wire[a] = <<subs[i].peer, i>> /\ wire[b] = <<subs[j].peer, j>>

\* C2: a send_or_push that returns success returns buf.len(), also after a
\* short write of the direct send_to.
C2_AcceptedCountIsLen ==
    (ev.op = "send_or_push" /\ ev.res = "ok") => ev.n = ev.len

\* C3: set_expired sets expired whatever its flush returns, expired never
\* goes back to false, and a recv on an expired session returns 0 and takes
\* nothing out of the protocol's receive queue.
C3_ExpiredIsTerminal ==
    [][/\ ev'.op = "set_expired" => cell'.expired
       /\ cell.expired => cell'.expired
       /\ (cell.expired /\ ev'.op = "recv") =>
              (ev'.res = "ok" /\ ev'.n = 0 /\ cell'.kcp = cell.kcp)]_vars

\* A recv on an expired session returned 0 with a complete message waiting.
C3_Witness ==
    /\ cell.expired
    /\ ev.op = "recv" /\ ev.res = "ok" /\ ev.n = 0
    /\ cell.kcp.rcv > 0

\* C4: send returns would-block exactly when wait_snd >= snd_wnd at the call;
\* then the caller's waker is stored and neither the protocol nor
\* last_update changes; with wait_snd < snd_wnd the payload goes to the
\* protocol (whose success queues it) and send does not return would-block.
C4_SendAdmission ==
    [][ev'.op = "send" =>
          /\ (ev'.res = "wouldblock") <=> (cell.kcp.wait_snd >= SndWnd)
          /\ ev'.res = "wouldblock" =>
                /\ cell'.send_task = ev'.task
                /\ cell'.kcp = cell.kcp
                /\ cell'.last_update = cell.last_update
          /\ ev'.res = "ok" => cell'.kcp.wait_snd > cell.kcp.wait_snd]_vars

\* A send was refused at a full window and left the caller's waker.
C4_Witness ==
    /\ ev.op = "send" /\ ev.res = "wouldblock"
    /\ cell.kcp.wait_snd >= SndWnd
    /\ cell.send_task = ev.task /\ ev.task # None

\* What the observers of a session return.
Observers(c, now) ==
    <<elapsed(c, now), has_waitsnd(c), can_read(c), peeksize(c), can_send(c), is_closed(c)>>

\* C5: a datagram of another conversation, fed by input or read by fetch, is
\* answered with success and changes nothing the observers or a following
\* recv can see.
C5_ForeignConvChangesNothing ==
    [][(ev'.op \in {"input", "fetch"} /\ ev'.arg = "conv") =>
          /\ ev'.res = "ok"
          /\ Observers(cell', clock') = Observers(cell, clock)
          /\ \A small \in BOOLEAN :
                LET a == SharedKcp_recv(cell', small, clock')
                    b == SharedKcp_recv(cell, small, clock)
                IN  a.ret = b.ret /\ a.n = b.n]_vars

\* C6: once the last producer of the mediator is gone (no KcpOutputHandle,
\* no session), finished is set.
C6_FinishedAfterLastProducer ==
    (handles = 0 /\ refs = 0) => inner.is_finished

\* The calls that refresh last_update when they return success; a fetch
\* counts when it read a datagram.
Refreshing(e) ==
    \/ e.op \in {"input", "send", "recv", "flush"}
    \/ e.op = "fetch" /\ e.arg \in {"ok", "conv", "bad"}

\* C7 as stated: last_update never decreases, every refreshing call that
\* returns success sets it to the current time, and no call that returns
\* an error changes it.
C7_LastUpdateRefreshed ==
    [][/\ cell'.last_update >= cell.last_update
       /\ (Refreshing(ev') /\ ev'.res = "ok") => cell'.last_update = clock'
       /\ ev'.res \in {"err", "wouldblock"} => cell'.last_update = cell.last_update]_vars

\* C7 as amended: the same, but a recv refreshes last_update only on a
\* session that is not expired; on an expired one it returns 0 and leaves
\* last_update as it was.
C7_LastUpdateRefreshedUnlessExpired ==
    [][/\ cell'.last_update >= cell.last_update
       /\ (Refreshing(ev') /\ ev'.res = "ok" /\ ~(ev'.op = "recv" /\ cell.expired)) =>
              cell'.last_update = clock'
       /\ (ev'.op = "recv" /\ cell.expired) => cell'.last_update = cell.last_update
       /\ ev'.res \in {"err", "wouldblock"} => cell'.last_update = cell.last_update]_vars

\* A flush failed after time had passed and last_update, refreshed before
\* by a successful call, lies between the session's start and now.
C7_Witness ==
    /\ ev.op = "flush" /\ ev.res = "err"
    /\ 0 < cell.last_update /\ cell.last_update < clock

\* C8: the send waker is notified only by try_notify_writable, only with
\* wait_snd < snd_wnd and a waker stored, and the notified waker is removed;
\* so a second try_notify_writable right after one that notified notifies
\* nobody.
C8_NotifyOnlyWhenWritable ==
    [][/\ ev'.woke # None =>
              /\ ev'.op = "try_notify_writable"
              /\ cell.kcp.wait_snd < SndWnd
              /\ cell.send_task = ev'.woke
              /\ cell'.send_task = None
       /\ (ev.op = "try_notify_writable" /\ ev.woke # None
              /\ ev'.op = "try_notify_writable") => ev'.woke = None]_vars

\* try_notify_writable has notified the stored waker and removed it.
C8_Witness ==
    /\ ev.op = "try_notify_writable" /\ ev.woke # None
    /\ cell.send_task = None

\* C9 as stated: a try_notify_writable that sees wait_snd < snd_wnd leaves no
\* caller with a refused send unnotified.
C9_EveryRefusedCallerWoken ==
    [][(ev'.op = "try_notify_writable" /\ cell.kcp.wait_snd < SndWnd) =>
          waiting' = {}]_vars

\* C9 as amended: a refused send stores its caller's waker in place of the
\* one stored before, and a try_notify_writable that sees
\* wait_snd < snd_wnd notifies the stored waker, the last refused caller's,
\* and nobody else.
C9_LastRefusedCallerWoken ==
    [][/\ (ev'.op = "send" /\ ev'.res = "wouldblock") =>
              (cell'.send_task = ev'.task /\ waiting' = waiting \cup {ev'.task})
       /\ (ev'.op = "try_notify_writable" /\ cell.kcp.wait_snd < SndWnd
              /\ cell.send_task # None) =>
              /\ ev'.woke = cell.send_task
              /\ waiting' = waiting \ {cell.send_task}
              /\ cell'.send_task = None]_vars

\* try_notify_writable notified one caller while another, refused earlier,
\* is left waiting.
C9_Witness ==
    /\ ev.op = "try_notify_writable" /\ ev.woke # None
    /\ waiting # {}

\* C10: send_or_push appends to pkt_queue only its own datagram, and only
\* after a would-block of its direct send_to or with pkt_queue non-empty at
\* the call; with pkt_queue non-empty it does not try send_to; a direct
\* send_to that succeeds or fails otherwise leaves pkt_queue as it was, and
\* the failure is returned.
C10_QueuedOnlyOnWouldBlockOrBacklog ==
    [][ev'.op = "send_or_push" =>
          /\ inner'.pkt_queue # inner.pkt_queue =>
                /\ inner'.pkt_queue = Append(inner.pkt_queue, <<ev'.arg, Len(subs')>>)
                /\ ev'.direct = "wouldblock" \/ inner.pkt_queue # <<>>
          /\ inner.pkt_queue # <<>> => ev'.direct = "none"
          /\ ev'.direct \in {"ok", "err"} => inner'.pkt_queue = inner.pkt_queue
          /\ ev'.direct = "err" => ev'.res = "err"
          /\ ev'.direct = "ok" => ev'.res = "ok"]_vars

\* A datagram was queued behind another without a send_to.
C10_Witness ==
    /\ ev.op = "send_or_push" /\ ev.direct = "none"
    /\ Len(inner.pkt_queue) >= 2
    /\ inner.pkt_queue[Len(inner.pkt_queue)] = <<ev.arg, Len(subs)>>

\* C11: the sessions on one socket, whichever constructor made them, write
\* to one pkt_queue, that of the socket's one mediator, and so for every
\* peer the datagrams leave the socket in the order the sessions submitted
\* them.
C11_OneEgressPerSocket ==
    /\ \A s \in 1 .. Len(sessions) : sessions[s].output = 0
    /\ outputs = <<>>
    /\ \A P \in Peers :
          \A i \in 1 .. Len(WireOf(P)) :
              i <= Len(AcceptedOf(P)) /\ WireOf(P)[i][2] = AcceptedOf(P)[i].pkt

\* C12 as stated: a fetch whose socket read returns would-block returns
\* success and changes no field of the session, recv_buf included, also on
\* the first fetch of a session.
C12_WouldBlockChangesNothing ==
    [][(ev'.op = "fetch" /\ ev'.arg = "wouldblock") =>
          (ev'.res = "ok" /\ cell' = cell)]_vars

\* C12 as amended: such a fetch returns success and changes no field of the
\* session but recv_buf, which it has grown to the MTU before the read when
\* it was shorter (as on the first fetch).
C12_WouldBlockChangesOnlyRecvBuf ==
    [][(ev'.op = "fetch" /\ ev'.arg = "wouldblock") =>
          /\ ev'.res = "ok"
          /\ cell' = [cell EXCEPT !.recv_buf = IF @ < Mtu THEN Mtu ELSE @]
          /\ cell.recv_buf >= Mtu => cell' = cell]_vars

\* A fetch got would-block after time had passed since the last activity:
\* recv_buf has the MTU's size, last_update is not refreshed.
C12_Witness ==
    /\ ev.op = "fetch" /\ ev.arg = "wouldblock" /\ ev.res = "ok"
    /\ cell.recv_buf = Mtu
    /\ cell.last_update < clock

\* The datagrams of pkt_queue are not on the wire.
QueuedNotSent == \A i \in 1 .. Len(inner.pkt_queue) :
                    \A j \in 1 .. Len(wire) : wire[j] # inner.pkt_queue[i]

\* C14: a hard error of send_to in the drainer's poll ends the drainer with
\* the head still in pkt_queue.  From then on the drainer is not polled,
\* nothing more reaches the socket, pkt_queue only grows, every send_or_push
\* returns success with buf.len() without trying send_to, and a flush whose
\* protocol has no error of its own returns success.
C14_DrainerFailureIsSilent ==
    [][/\ (ev'.op = "poll" /\ ev'.direct = "err") =>
              /\ drainer' = "failed"
              /\ inner'.pkt_queue # <<>>
              /\ Head(inner'.pkt_queue) \in {inner.pkt_queue[i] : i \in 1 .. Len(inner.pkt_queue)}
       /\ drainer = "failed" =>
              /\ drainer' = "failed"
              /\ ev'.op # "poll"
              /\ wire' = wire
              /\ Len(inner'.pkt_queue) >= Len(inner.pkt_queue)
              /\ SubSeq(inner'.pkt_queue, 1, Len(inner.pkt_queue)) = inner.pkt_queue
              /\ inner.pkt_queue # <<>>
              /\ ev'.op = "send_or_push" =>
                    /\ ev'.res = "ok" /\ ev'.n = ev'.len /\ ev'.direct = "none"
                    /\ Len(inner'.pkt_queue) = Len(inner.pkt_queue) + 1
              /\ \A fl \in FlushInputs(Room) :
                    ~fl.perr => SharedKcp_flush(cell, Egress, fl, clock).ret = "ok"]_vars

\* After the drainer failed a send_or_push returned success, and its
\* datagram sits in pkt_queue behind the one that failed; none of them was
\* sent.
C14_Witness ==
    /\ drainer = "failed"
    /\ ev.op = "send_or_push" /\ ev.res = "ok" /\ ev.n = ev.len
    /\ Len(inner.pkt_queue) >= 2
    /\ QueuedNotSent

\* C15: a datagram the protocol rejects for another reason than its
\* conversation id makes input, and fetch when it read that datagram, return
\* the error without refreshing last_update; a read error of the socket
\* other than would-block makes fetch return an error, again without
\* refreshing last_update.
C15_OtherErrorsPropagate ==
    [][/\ (ev'.op \in {"input", "fetch"} /\ ev'.arg = "bad") =>
              /\ ev'.res = "err"
              /\ cell'.last_update = cell.last_update
       /\ (ev'.op = "fetch" /\ ev'.arg = "err") =>
              /\ ev'.res = "err"
              /\ cell'.last_update = cell.last_update]_vars

\* An input returned the protocol's error after time had passed since the
\* last activity, and last_update is still the old one.
C15_Witness ==
    /\ ev.op = "input" /\ ev.arg = "bad" /\ ev.res = "err"
    /\ cell.last_update < clock

\* C16: close sets is_closed and changes nothing else of the session,
\* set_expired leaves is_closed as it is, neither flag goes back to false,
\* and whether a send is refused with would-block is decided by
\* wait_snd >= snd_wnd alone, whatever is_closed and expired are.
C16_ClosedAndExpiredIndependent ==
    [][/\ ev'.op = "close" => cell' = [cell EXCEPT !.is_closed = TRUE]
       /\ ev'.op = "set_expired" => cell'.is_closed = cell.is_closed
       /\ cell.is_closed => cell'.is_closed
       /\ cell.expired => cell'.expired
       /\ ev'.op = "send" =>
              /\ (ev'.res = "wouldblock") <=> (cell.kcp.wait_snd >= SndWnd)
              /\ cell'.is_closed = cell.is_closed
              /\ cell'.expired = cell.expired]_vars

\* A session that was closed and is not expired has accepted a send.
C16_Witness ==
    /\ cell.is_closed /\ ~cell.expired
    /\ ev.op = "send" /\ ev.res = "ok"
    /\ cell.kcp.wait_snd > 0

\* C17: the drop of a SharedKcp flushes the protocol when it is the last
\* clone of the session and only then; a drop with other clones left changes
\* nothing of the mediator; the drop completes whatever the flush returns;
\* every datagram the flush emits is a call of send_or_push for the
\* session's peer, which sends it or queues it; and after the last drop the
\* session is not dropped again.
C17_FinalFlushAtLastDrop ==
    [][/\ ev'.op = "drop" =>
              /\ refs' = refs - 1
              /\ (ev'.res = "flushed") <=> (refs = 1)
              /\ refs > 1 => (ev'.n = 0 /\ UNCHANGED <<inner, drainer, dropped, wire, subs>>)
              /\ ev'.n = Len(subs') - Len(subs)
              /\ \A i \in Len(subs) + 1 .. Len(subs') :
                    /\ subs'[i].peer = SessionPeer
                    /\ subs'[i].ret = "ok" =>
                          \/ \E j \in Len(wire) + 1 .. Len(wire') : wire'[j] = <<SessionPeer, i>>
                          \/ \E j \in 1 .. Len(inner'.pkt_queue) :
                                inner'.pkt_queue[j] = <<SessionPeer, i>>
       /\ refs = 0 => (refs' = 0 /\ ev'.op \notin {"drop", "flush"})]_vars

\* The last clone of the session was dropped and its flush emitted a
\* datagram for the session's peer.
C17_Witness ==
    /\ ev.op = "drop" /\ ev.res = "flushed" /\ ev.n > 0
    /\ refs = 0
    /\ subs[Len(subs)].peer = SessionPeer

\* Datagram number i is in pkt_queue; it has left the socket.
InQueue(i) == \E j \in 1 .. Len(inner.pkt_queue) : inner.pkt_queue[j][2] = i

OnWire(i) == \E j \in 1 .. Len(wire) : wire[j][2] = i

\* C18: with a drainer that is polled when notified and a socket that does
\* not refuse for ever nor fail, every datagram put in pkt_queue is
\* transmitted in the end.  A push_packet that finds the drainer yielded on
\* an empty queue takes its stored task and makes it runnable; a drainer
\* that yielded on would-block has a datagram in pkt_queue, and that head
\* stays first until the socket wakes the drainer and it is polled again.
C18_NoLostWakeup ==
    /\ \A i \in 1 .. MaxSubmit : InQueue(i) ~> OnWire(i)
    /\ [][/\ (drainer = "parked" /\ inner'.pkt_queue # inner.pkt_queue) =>
                 (inner.task /\ ~inner'.task /\ drainer' = "runnable")
          /\ drainer = "parked" => (inner.task /\ inner.pkt_queue = <<>>)
          /\ drainer = "blocked" =>
                 /\ inner.pkt_queue # <<>>
                 /\ inner'.pkt_queue # <<>>
                 /\ Head(inner'.pkt_queue) = Head(inner.pkt_queue)
                 /\ drainer' \in {"blocked", "runnable"}]_vars

\* A datagram queued after a would-block was sent by a poll of the drainer.
C18_Witness ==
    /\ ev.op = "poll" /\ ev.direct = "ok"
    /\ wire # <<>>
    /\ \E i \in 1 .. Len(subs) :
          /\ subs[i].direct \in {"wouldblock", "none"}
          /\ wire[Len(wire)] = <<subs[i].peer, i>>
    /\ drainer = "parked"

\* The accepted submissions that were not sent directly, in order, and the
\* number of datagrams the drainer has sent.
QueuedSubs == SelectSeq(subs, LAMBDA x : x.ret = "ok" /\ x.direct # "ok")

DirectSubs == SelectSeq(subs, LAMBDA x : x.direct = "ok")

Drained == Len(wire) - Len(DirectSubs)

\* C19: no datagram is on the wire twice, and each one there was accepted
\* by send_or_push; pkt_queue holds, in the order of submission, exactly the
\* accepted datagrams that were not sent directly and that the drainer has
\* not yet sent; and pkt_queue loses entries only in a poll of the drainer,
\* from its head, each of them sent by that poll.
C19_QueueIsExactlyThePending ==
    /\ [](/\ \A a, b \in 1 .. Len(wire) : a # b => wire[a] # wire[b]
          /\ \A a \in 1 .. Len(wire) :
                /\ wire[a][2] \in 1 .. Len(subs)
                /\ subs[wire[a][2]].ret = "ok"
                /\ subs[wire[a][2]].peer = wire[a][1]
          /\ Drained \in 0 .. Len(QueuedSubs)
          /\ Len(inner.pkt_queue) = Len(QueuedSubs) - Drained
          /\ \A j \in 1 .. Len(inner.pkt_queue) :
                inner.pkt_queue[j] = <<QueuedSubs[Drained + j].peer, QueuedSubs[Drained + j].pkt>>)
    /\ [][\/ /\ Len(inner'.pkt_queue) >= Len(inner.pkt_queue)
             /\ SubSeq(inner'.pkt_queue, 1, Len(inner.pkt_queue)) = inner.pkt_queue
          \/ /\ ev'.op = "poll"
             /\ \E n \in 1 .. Len(inner.pkt_queue) :
                   /\ inner'.pkt_queue = SubSeq(inner.pkt_queue, n + 1, Len(inner.pkt_queue))
                   /\ wire' = wire \o SubSeq(inner.pkt_queue, 1, n)]_vars

\* The drainer has sent a queued datagram while a later one waits, and a
\* datagram was sent directly before.
C19_Witness ==
    /\ Drained > 0
    /\ DirectSubs # <<>>
    /\ inner.pkt_queue # <<>>
    /\ ev.op = "send_or_push"

\* C20: with the calls taking turns, no borrow of the session's RefCell or
\* of the mediator's fails, and both are free between the calls.
C20_NoBorrowFailure ==
    /\ ~panicked
    /\ pc = <<>> => borrowed = [cell |-> 0, egress |-> 0]

\* A flush, set_expired or update holds the session's mutable borrow while
\* its write holds the mediator's.
C20_Witness ==
    /\ ev.op \in FlushMethods
    /\ borrowed = [cell |-> -1, egress |-> -1]

====
